---- MODULE Spec2Model ----
(***************************************************************************)
(* Model of the aggregation engine of the NetSuite visibility dashboard    *)
(* (src/app2.py): the Schema Normalizer process_netsuite_csv, the filter   *)
(* step of the dashboard tab, the Hierarchical Aggregator generate_report  *)
(* and the comparison tab with compare_versions,                           *)
(* compare_versions_by_group and the month comparison.                     *)
(*                                                                         *)
(* A DataFrame is a record [kind |-> "DataFrame", ...]; Python's None is   *)
(* [kind |-> "None"].  A float cell is <<x>> or the missing value <<>>     *)
(* (NaN / NaT); an object (string) cell is a string or the marker NA.      *)
(***************************************************************************)
EXTENDS Integers, Sequences, FiniteSets, TLC

\* ------------------------------------------------------------------ bounds
\* Longest table handed to generate_report.
MaxRows == 3
\* Longest dataset of a dashboard session.
MaxDashRows == 2
\* Most data rows of an uploaded file.
MaxFileRows == 2
\* Longest current dataset the comparison tab compares.
MaxDiffRows == 2
\* Longest previous dataset it is compared with.
MaxPreviousRows == 1
MaxNameLen == 3
MaxHundreds == 30

\* ---------------------------------------------------------- value encoding
None == [kind |-> "None"]
NaN == <<>>
NA == "<NA>"
IsNaN(x) == x = <<>>

Range(s) == {s[i] : i \in 1..Len(s)}

\* Python compares strings by code point; StringOrder lists, in that order,
\* every string the model uses as a group key.
StringOrder ==
    <<"Acme", "April", "August", "Beta", "December", "February", "January",
      "July", "June", "March", "May", "November", "October", "Q1", "Q2", "Q3",
      "Q4", "September", "Sin Trimestre", "Total">>
StrRank(s) == CHOOSE i \in 1..Len(StringOrder) : StringOrder[i] = s

\* The unique sequence of the elements of S in increasing rank (the sorted
\* group keys of a groupby).
RECURSIVE SortSet(_, _)
SortSet(S, rank) ==
    IF S = {} THEN <<>>
    ELSE LET m == CHOOSE x \in S : \A y \in S : rank[x] <= rank[y]
         IN  <<m>> \o SortSet(S \ {m}, rank)

\* Python's sorted(s, key=...): a stable sort by key.
RECURSIVE Insert(_, _, _)
Insert(x, s, key) ==
    IF s = <<>> THEN <<x>>
    ELSE IF key[x] < key[Head(s)] THEN <<x>> \o s
    ELSE <<Head(s)>> \o Insert(x, Tail(s), key)
RECURSIVE sorted(_, _)
sorted(s, key) ==
    IF s = <<>> THEN <<>>
    ELSE Insert(s[Len(s)], sorted(SubSeq(s, 1, Len(s) - 1), key), key)

RECURSIVE SumSeq(_)
SumSeq(s) == IF s = <<>> THEN 0 ELSE Head(s) + SumSeq(Tail(s))

RECURSIVE Concat(_)
Concat(ss) == IF ss = <<>> THEN <<>> ELSE Head(ss) \o Concat(Tail(ss))

\* All orderings of the set S.
Orderings(S) ==
    {p \in [1..Cardinality(S) -> S] : \A i, j \in DOMAIN p : i # j => p[i] # p[j]}

\* ------------------------------------------------------ generate_report
month_order ==
    <<"January", "February", "March", "April", "May", "June",
      "July", "August", "September", "October", "November", "December">>
quarter_order == <<"Q1", "Q2", "Q3", "Q4">>

\* aggfunc='sum' over the Amount cells of one group: NaN cells are skipped.
RECURSIVE nansum(_)
nansum(cells) ==
    IF cells = <<>> THEN 0
    ELSE (IF IsNaN(Head(cells)) THEN 0 ELSE Head(cells)[1]) + nansum(Tail(cells))

\* The groupby behind pd.pivot_table drops every row with a missing key.
GroupedRows(df) ==
    SelectSeq(df.rows, LAMBDA r : r.Client # NA /\ r.Trimestre # NA /\ r.Mes_Nombre # NA)

AmountsOf(rows, client, col) ==
    LET sel == SelectSeq(rows, LAMBDA r :
                   r.Client = client /\ r.Trimestre = col[1] /\ r.Mes_Nombre = col[2])
    IN  [i \in 1..Len(sel) |-> sel[i].Amount]

\* pd.pivot_table(values='Amount', index='Client',
\*                columns=['Trimestre','Mes_Nombre'], aggfunc='sum', fill_value=0):
\* sorted index, lexicographically sorted two-level columns, 0 where a
\* (client, column) pair has no row.
pivot_table(df) ==
    LET rows == GroupedRows(df)
        clients == {rows[i].Client : i \in 1..Len(rows)}
        cols == {<<rows[i].Trimestre, rows[i].Mes_Nombre>> : i \in 1..Len(rows)}
        n == Len(StringOrder)
    IN  [kind |-> "DataFrame",
         index |-> SortSet(clients, [c \in clients |-> StrRank(c)]),
         columns |-> SortSet(cols, [c \in cols |-> StrRank(c[1]) * n + StrRank(c[2])]),
         data |-> [c \in clients |-> [col \in cols |-> nansum(AmountsOf(rows, c, col))]]]

\* quarter_cols = [q for q in quarter_order if q in pivot_table.columns.levels[0]]
quarter_cols(columns) ==
    SelectSeq(quarter_order, LAMBDA q : \E c \in Range(columns) : c[1] = q)

\* [m for m in pivot_table[q].columns if m != 'Total']
q_months(columns, q) ==
    LET under == SelectSeq(columns, LAMBDA c : c[1] = q /\ c[2] # "Total")
    IN  [i \in 1..Len(under) |-> under[i][2]]

\* key=lambda x: month_order.index(x) if x in month_order else 999
MonthKey(x) ==
    IF x \in Range(month_order)
    THEN (CHOOSE i \in 1..Len(month_order) : month_order[i] = x) - 1
    ELSE 999

q_months_unordered(months) == months

q_months_ordered(months) ==
    sorted(months, [m \in Range(months) |-> MonthKey(m)])

new_cols(columns) ==
    LET qs == quarter_cols(columns)
    IN  Concat([k \in 1..Len(qs) |->
                  LET ms == q_months_ordered(q_months(columns, qs[k]))
                  IN  [i \in 1..Len(ms) |-> <<qs[k], ms[i]>>]])

\* One ('Total', quarter) column per quarter that has month columns.
total_quarter_cols(columns) ==
    LET qs == SelectSeq(quarter_cols(columns), LAMBDA q : q_months(columns, q) # <<>>)
    IN  [k \in 1..Len(qs) |-> <<"Total", qs[k]>>]

QuarterTotal_FirstMonthOnly(row, quarter, quarter_months) ==
    row[<<quarter, quarter_months[1]>>]

\* pivot_table[quarter][quarter_months].sum(axis=1), for one row
QuarterTotal(row, quarter, quarter_months) ==
    SumSeq([i \in 1..Len(quarter_months) |-> row[<<quarter, quarter_months[i]>>]])

\* The table with the ('Total', quarter) columns appended.
WithQuarterTotals(pt) ==
    LET totals == total_quarter_cols(pt.columns)
        all == Range(pt.columns) \cup Range(totals)
    IN  [kind |-> "DataFrame",
         index |-> pt.index,
         columns |-> pt.columns \o totals,
         data |-> [c \in Range(pt.index) |->
                     [col \in all |->
                        IF col \in Range(totals)
                        THEN QuarterTotal(pt.data[c], col[2], q_months(pt.columns, col[2]))
                        ELSE pt.data[c][col]]]]

monthly_cols_WithSubtotals(months, totals) == months \o totals

\* monthly_cols = [(q, m) for q, m in new_cols]
monthly_cols(months, totals) == months

\* pivot_table[monthly_cols].sum(axis=1), for one row
AnualTotal(row, cs) == SumSeq([i \in 1..Len(cs) |-> row[cs[i]]])

\* The table with the ('Total', 'Anual') column appended.
WithAnualTotal(pt, cs) ==
    LET anual == <<"Total", "Anual">>
    IN  [kind |-> "DataFrame",
         index |-> pt.index,
         columns |-> Append(pt.columns, anual),
         data |-> [c \in Range(pt.index) |->
                     [col \in Range(pt.columns) \cup {anual} |->
                        IF col = anual THEN AnualTotal(pt.data[c], cs)
                        ELSE pt.data[c][col]]]]

final_cols_TotalsFirst(months, totals) == totals \o months \o << <<"Total", "Anual">> >>

\* final_cols = new_cols + total_quarter_cols + [('Total', 'Anual')]
final_cols(months, totals) == months \o totals \o << <<"Total", "Anual">> >>

sort_values_Ascending(index, anual) ==
    {p \in Orderings(Range(index)) :
        \A i \in 1..(Len(p) - 1) : anual[p[i]] <= anual[p[i + 1]]}

\* sort_values(('Total','Anual'), ascending=False) with the default
\* kind='quicksort', which is not a stable sort: every order of the rows that
\* is non-increasing in the annual total is a possible outcome.
sort_values(index, anual) ==
    {p \in Orderings(Range(index)) :
        \A i \in 1..(Len(p) - 1) : anual[p[i]] >= anual[p[i + 1]]}

\* pivot_table[final_cols] on the sorted table
Reordered(pt, order, cols) ==
    [kind |-> "DataFrame",
     index |-> order,
     columns |-> cols,
     data |-> [c \in Range(order) |-> [col \in Range(cols) |-> pt.data[c][col]]]]

\* pivot_table.sum(): the sum of every column over all the rows
ColumnSums(tbl) ==
    [col \in Range(tbl.columns) |->
        SumSeq([i \in 1..Len(tbl.index) |-> tbl.data[tbl.index[i]][col]])]

\* pivot_table.loc['Total'] = sums: the row labelled 'Total' is appended when
\* no row has that label and overwritten in place when one has.
SetTotalRow(tbl, sums) ==
    [kind |-> "DataFrame",
     index |-> IF "Total" \in Range(tbl.index) THEN tbl.index
               ELSE Append(tbl.index, "Total"),
     columns |-> tbl.columns,
     data |-> [l \in Range(tbl.index) \cup {"Total"} |->
                  IF l = "Total" THEN sums ELSE tbl.data[l]]]

IsEmptyInput_NoneOnly(df) == df.kind = "None"

\* if netsuite_df is None or len(netsuite_df) == 0
IsEmptyInput(df) == df.kind = "None" \/ Len(df.rows) = 0

\* The set of tables generate_report can return for the input df.
generate_report(df) ==
    IF IsEmptyInput(df) THEN {None}
    ELSE LET pt == pivot_table(df)
             months == new_cols(pt.columns)
             totals == total_quarter_cols(pt.columns)
             full == WithAnualTotal(WithQuarterTotals(pt), monthly_cols(months, totals))
             anual == [c \in Range(pt.index) |-> full.data[c][<<"Total", "Anual">>]]
             cols == final_cols(months, totals)
         IN  {LET tbl == Reordered(full, order, cols)
              IN  SetTotalRow(tbl, ColumnSums(tbl)) :
              order \in sort_values(pt.index, anual)}

\* ------------------------------------------------- canonical records
\* A parsed date is <<year, month, day>>; NaT is the missing date.
NaT == <<>>

\* 'Q' + df[date_col].dt.quarter.fillna(0).astype(int).astype(str), then
\* .replace('Q0', 'Sin Trimestre')
QuarterNumber(date) == IF date = NaT THEN 0 ELSE ((date[2] - 1) \div 3) + 1
Trimestre_NoSentinel(date) ==
    LET q == QuarterNumber(date)
    IN  IF q = 0 THEN "Q0" ELSE quarter_order[q]

Trimestre(date) ==
    LET q == QuarterNumber(date)
    IN  IF q = 0 THEN "Sin Trimestre" ELSE quarter_order[q]

\* dt.year, dt.month, dt.month_name() and the quarter label of one row
DateParts(date) ==
    [Anio |-> IF date = NaT THEN NaN ELSE <<date[1]>>,
     Mes |-> IF date = NaT THEN NaN ELSE <<date[2]>>,
     Mes_Nombre |-> IF date = NaT THEN NA ELSE month_order[date[2]],
     Trimestre |-> Trimestre(date)]

\* One row of the table process_netsuite_csv returns.
CanonicalRow(client, date, amount, partner, pm) ==
    LET parts == DateParts(date)
    IN  [Client |-> client, Date |-> date, Amount |-> amount,
         Anio |-> parts.Anio, Mes |-> parts.Mes, Mes_Nombre |-> parts.Mes_Nombre,
         Trimestre |-> parts.Trimestre, Partner |-> partner, PM |-> pm]

DataFrame(rows) == [kind |-> "DataFrame", rows |-> rows]

\* --------------------------------------------------------------- inputs
Clients == {"Acme", "Beta", "Total"}
Dates == {NaT, <<2024, 1, 15>>, <<2024, 2, 20>>, <<2024, 4, 10>>}
\* The records a table is drawn from: every client on every date with amount 1,
\* one record with another month and amount, one with an unparsable amount.
ReportRecords ==
    {CanonicalRow(c, d, <<1>>, "Sin asignar", "Sin asignar") : c \in Clients, d \in Dates}
    \cup {CanonicalRow("Acme", <<2024, 3, 10>>, <<2>>, "Sin asignar", "Sin asignar"),
          CanonicalRow("Beta", <<2024, 2, 20>>, NaN, "Sin asignar", "Sin asignar")}

SeqsUpTo(S, n) == UNION {[1..k -> S] : k \in 0..n}

ReportInputs == {None} \cup {DataFrame(rows) : rows \in SeqsUpTo(ReportRecords, MaxRows)}

\* The datasets the dashboard session holds: two clients, an undated and two
\* dated records, and one record that has a partner.
DashRecords ==
    {CanonicalRow(c, d, <<1>>, "Sin asignar", "Sin asignar") :
        c \in {"Acme", "Beta"}, d \in {NaT, <<2024, 1, 15>>, <<2024, 4, 10>>}}
    \cup {CanonicalRow("Acme", <<2024, 1, 15>>, <<1>>, "Ana", "Sin asignar")}

DashDatasets ==
    {None} \cup {DataFrame(rows) : rows \in SeqsUpTo(DashRecords, MaxDashRows)}

\* ------------------------------------------------------ dashboard tab
ColumnValues(df, field) == {df.rows[i][field] : i \in 1..Len(df.rows)}

\* netsuite_data['Año'].dropna().unique().astype(int).astype(str).tolist()
year_options(df) ==
    {ToString(y[1]) : y \in {v \in ColumnValues(df, "Anio") : ~IsNaN(v)}}

\* int(selected_year)
YearOf(df, selected_year) ==
    CHOOSE y \in {v[1] : v \in {w \in ColumnValues(df, "Anio") : ~IsNaN(w)}} :
        ToString(y) = selected_year

\* The five filters of the tab, applied one after the other to a copy of the
\* session's dataset; an empty multiselect and "Todos" filter nothing.
ApplyFilters(df, selected_clients, selected_year, selected_quarter, selected_partners, selected_pms) ==
    LET f1 == IF selected_clients # {}
              THEN SelectSeq(df.rows, LAMBDA r : r.Client \in selected_clients)
              ELSE df.rows
        f2 == IF selected_year # "Todos"
              THEN SelectSeq(f1, LAMBDA r : r.Anio = <<YearOf(df, selected_year)>>)
              ELSE f1
        f3 == IF selected_quarter # "Todos"
              THEN SelectSeq(f2, LAMBDA r : r.Trimestre = selected_quarter)
              ELSE f2
        f4 == IF selected_partners # {}
              THEN SelectSeq(f3, LAMBDA r : r.Partner \in selected_partners)
              ELSE f3
        f5 == IF selected_pms # {}
              THEN SelectSeq(f4, LAMBDA r : r.PM \in selected_pms)
              ELSE f4
    IN  DataFrame(f5)

\* if report_table is not None: the table is shown, else the warning
Display(table) == IF table.kind # "None" THEN "table" ELSE "warning"

\* ------------------------------------------------------ text values
\* The text of a CSV cell is a sequence of one-character strings; the empty
\* sequence is the empty cell, which read_csv loads as NaN.
Digits == <<"0", "1", "2", "3", "4", "5", "6", "7", "8", "9">>
UpperCase ==
    <<"A", "B", "C", "D", "E", "F", "G", "H", "I", "J", "K", "L", "M",
      "N", "O", "P", "Q", "R", "S", "T", "U", "V", "W", "X", "Y", "Z">>
LowerCase ==
    <<"a", "b", "c", "d", "e", "f", "g", "h", "i", "j", "k", "l", "m",
      "n", "o", "p", "q", "r", "s", "t", "u", "v", "w", "x", "y", "z">>

IsDigit(c) == c \in Range(Digits)
AllDigits(s) == s # <<>> /\ \A i \in 1..Len(s) : IsDigit(s[i])
DigitValue(c) == (CHOOSE i \in 1..Len(Digits) : Digits[i] = c) - 1

\* int(s) of a string of digits
RECURSIVE ParseDigits(_)
ParseDigits(s) ==
    IF s = <<>> THEN 0
    ELSE 10 * ParseDigits(SubSeq(s, 1, Len(s) - 1)) + DigitValue(s[Len(s)])

RECURSIVE Power10(_)
Power10(n) == IF n = 0 THEN 1 ELSE 10 * Power10(n - 1)

\* The decimal digits of n, zero-padded to width characters.
RECURSIVE NatChars(_, _)
NatChars(n, width) ==
    IF width = 0 THEN <<>>
    ELSE NatChars(n \div 10, width - 1) \o <<Digits[(n % 10) + 1]>>

\* str.replace(old, new) for a one-character old
RECURSIVE str_replace(_, _, _)
str_replace(s, old, new) ==
    IF s = <<>> THEN <<>>
    ELSE (IF Head(s) = old THEN new ELSE <<Head(s)>>) \o str_replace(Tail(s), old, new)

\* str.split(sep) for a one-character sep
RECURSIVE split(_, _)
split(s, sep) ==
    IF \A i \in 1..Len(s) : s[i] # sep THEN <<s>>
    ELSE LET k == CHOOSE i \in 1..Len(s) : s[i] = sep /\ \A j \in 1..(i - 1) : s[j] # sep
         IN  <<SubSeq(s, 1, k - 1)>> \o split(SubSeq(s, k + 1, Len(s)), sep)

\* str.strip()
RECURSIVE lstrip(_)
lstrip(s) == IF s # <<>> /\ Head(s) = " " THEN lstrip(Tail(s)) ELSE s
RECURSIVE rstrip(_)
rstrip(s) ==
    IF s # <<>> /\ s[Len(s)] = " " THEN rstrip(SubSeq(s, 1, Len(s) - 1)) ELSE s
strip(s) == rstrip(lstrip(s))

\* str.lower()
LowerChar(c) ==
    IF c \in Range(UpperCase)
    THEN LowerCase[CHOOSE i \in 1..Len(UpperCase) : UpperCase[i] = c]
    ELSE c
lower(s) == [i \in 1..Len(s) |-> LowerChar(s[i])]

\* A Python value handed to normalize_name: a str or something else.
PyStr(chars) == [str |-> chars]
NotAStr == [float |-> "nan"]

\* normalize_name(name)
normalize_name(name) ==
    IF "str" \notin DOMAIN name THEN <<>>
    ELSE LET normalized == lower(strip(name.str))
         IN  IF "," \in Range(normalized)
             THEN LET parts == split(normalized, ",")
                  IN  IF Len(parts) = 2
                      THEN strip(parts[2]) \o <<" ">> \o strip(parts[1])
                      ELSE normalized
             ELSE normalized

\* --------------------------------------------------- process_netsuite_csv
\* The headers the model's files use, and for each the search strings of the
\* column detection that occur in its lower-cased name.
HeaderNames ==
    {"Date", "Customer Parent", "Client Leader AUX", "PM", "Total USD", "Amount", "Project"}
Needles(header) ==
    CASE header = "Date" -> {"date"}
      [] header = "Customer Parent" -> {"customer", "parent"}
      [] header = "Client Leader AUX" -> {"client", "client leader", "leader aux"}
      [] header = "PM" -> {"pm"}
      [] header = "Total USD" -> {"usd", "total"}
      [] header = "Amount" -> {"amount"}
      [] header = "Project" -> {}

\* [col for col in df.columns if <one of needles> in col.lower()]
ColumnsLike(columns, needles) ==
    SelectSeq(columns, LAMBDA col : Needles(col) \cap needles # {})

\* xs[0] if xs else default
FirstOr(xs, default) == IF xs # <<>> THEN xs[1] ELSE default

\* st.selectbox(label, options): the widget is created while the function
\* runs and the function does not wait for input, so it returns the option at
\* its default index 0.
selectbox(options) == options[1]

date_col(columns) == FirstOr(ColumnsLike(columns, {"date", "fecha"}), "Date")
client_col(columns) ==
    FirstOr(ColumnsLike(columns, {"client", "customer", "parent"}), "Customer Parent")
partner_col(columns) ==
    LET found == ColumnsLike(columns, {"client leader", "leader aux", "partner"})
    IN  IF found # <<>> THEN found[1] ELSE selectbox(columns)
pm_col(columns) ==
    LET found == ColumnsLike(columns, {"pm"})
    IN  IF found # <<>> THEN found[1] ELSE selectbox(columns)
amount_col(columns) ==
    IF "Total USD" \in Range(columns) THEN "Total USD"
    ELSE FirstOr(ColumnsLike(columns, {"usd", "total", "amount"}), "Total")

\* The calendar of the date parser.
IsLeap(y) == (y % 4 = 0 /\ y % 100 # 0) \/ y % 400 = 0
DaysInMonth(y, m) ==
    IF m = 2 THEN (IF IsLeap(y) THEN 29 ELSE 28)
    ELSE IF m \in {4, 6, 9, 11} THEN 30 ELSE 31
ValidDate(y, m, d) == m \in 1..12 /\ d \in 1..DaysInMonth(y, m)

\* The three numbers of a cell "a/b/y", or <<>> when the cell has another shape.
DateFields(cell) ==
    LET parts == split(cell, "/")
    IN  IF Len(parts) = 3 /\ \A i \in 1..3 : AllDigits(parts[i])
        THEN <<ParseDigits(parts[1]), ParseDigits(parts[2]), ParseDigits(parts[3])>>
        ELSE <<>>

\* One cell read with a fixed field order; NaT when it does not fit.
ParseAs(cell, format) ==
    LET f == DateFields(cell)
    IN  IF f = <<>> THEN NaT
        ELSE IF format = "dmy" /\ ValidDate(f[3], f[2], f[1]) THEN <<f[3], f[2], f[1]>>
        ELSE IF format = "mdy" /\ ValidDate(f[3], f[1], f[2]) THEN <<f[3], f[1], f[2]>>
        ELSE NaT

\* One cell read day first, month first when the day-first reading is no date.
ParseDayFirst(cell) ==
    IF ParseAs(cell, "dmy") # NaT THEN ParseAs(cell, "dmy") ELSE ParseAs(cell, "mdy")

\* pd.to_datetime(column, dayfirst=True, errors='coerce').  The library reads
\* either every cell on its own, or every cell with the format of the first
\* non-empty cell when that cell is a date: both results are possible, and in
\* both a cell that cannot be read becomes NaT.
to_datetime(cells) ==
    LET nonEmpty == SelectSeq(cells, LAMBDA c : c # <<>>)
        perCell == [i \in 1..Len(cells) |-> ParseDayFirst(cells[i])]
        format == IF ParseAs(nonEmpty[1], "dmy") # NaT THEN "dmy" ELSE "mdy"
        inferred == [i \in 1..Len(cells) |-> ParseAs(cells[i], format)]
    IN  IF nonEmpty = <<>> \/ ParseDayFirst(nonEmpty[1]) = NaT
        THEN {perCell}
        ELSE {perCell, inferred}

\* A number as pd.to_numeric reads it, in thousandths: an optional sign, digits
\* with at most one '.', at least one digit; NaN for every other text.  The
\* amount texts of the model have at most three decimals.
to_numeric(text) ==
    LET negative == text # <<>> /\ Head(text) = "-"
        body == IF text # <<>> /\ Head(text) \in {"-", "+"} THEN Tail(text) ELSE text
        parts == split(body, ".")
        whole == parts[1]
        frac == IF Len(parts) = 2 THEN parts[2] ELSE <<>>
        wellFormed ==
            /\ Len(parts) <= 2
            /\ whole \o frac # <<>>
            /\ \A i \in 1..Len(whole) : IsDigit(whole[i])
            /\ \A i \in 1..Len(frac) : IsDigit(frac[i])
            /\ Len(frac) <= 3
        magnitude == ParseDigits(whole) * 1000 + ParseDigits(frac) * Power10(3 - Len(frac))
    IN  IF ~wellFormed THEN NaN
        ELSE IF negative THEN <<0 - magnitude>> ELSE <<magnitude>>

\* read_csv gives a column a numeric dtype when every non-empty cell is a
\* number, else it keeps the texts (dtype object).
IsObjectColumn(cells) ==
    \E i \in 1..Len(cells) : cells[i] # <<>> /\ to_numeric(cells[i]) = NaN

AmountOfText_KeepsDots(cell) ==
    IF cell = <<>> THEN NaN
    ELSE to_numeric(str_replace(str_replace(cell, ",", <<".">>), " ", <<>>))

\* The amount of one cell of an object column:
\* astype(str).str.replace('.', '').str.replace(',', '.').str.replace(' ', '')
\* then pd.to_numeric(errors='coerce'); the empty cell is the text 'nan'.
AmountOfText(cell) ==
    IF cell = <<>> THEN NaN
    ELSE to_numeric(str_replace(str_replace(str_replace(cell, ".", <<>>), ",", <<".">>),
                                " ", <<>>))

\* The Amount column: converted when the column holds texts, as read otherwise.
ConvertAmounts(cells) ==
    IF IsObjectColumn(cells)
    THEN [i \in 1..Len(cells) |-> AmountOfText(cells[i])]
    ELSE [i \in 1..Len(cells) |-> IF cells[i] = <<>> THEN NaN ELSE to_numeric(cells[i])]

month_map ==
    <<"Jan.", "Feb.", "Mar.", "Apr.", "May.", "Jun.",
      "Jul.", "Aug.", "Sep.", "Oct.", "Nov.", "Dec.">>

\* str(value) of a cell of a renamed column: the text itself, or the text of
\* a timestamp.
StrOfDate(date) ==
    NatChars(date[1], 4) \o <<"-">> \o NatChars(date[2], 2) \o <<"-">>
        \o NatChars(date[3], 2) \o <<" ", "0", "0", ":", "0", "0", ":", "0", "0">>

SinAsignar == <<"S", "i", "n", " ", "a", "s", "i", "g", "n", "a", "r">>

\* The decimal digits of n without padding.
RECURSIVE NatText(_)
NatText(n) == IF n < 10 THEN <<Digits[n + 1]>> ELSE NatText(n \div 10) \o <<Digits[(n % 10) + 1]>>

\* str(x) of a float given in thousandths: "1500.0", "1.5", "-0.25".
RECURSIVE DropTrailingZeros(_)
DropTrailingZeros(s) ==
    IF Len(s) > 1 /\ s[Len(s)] = "0" THEN DropTrailingZeros(SubSeq(s, 1, Len(s) - 1)) ELSE s
StrOfNumber(x) ==
    LET magnitude == IF x < 0 THEN 0 - x ELSE x
    IN  (IF x < 0 THEN <<"-">> ELSE <<>>)
            \o NatText(magnitude \div 1000) \o <<".">>
            \o DropTrailingZeros(NatChars(magnitude % 1000, 3))

\* fillna(fill).astype(str) of one cell of a column of the given dtype
FillAndStr(value, dtype, fill) ==
    IF value = <<>> THEN fill
    ELSE IF dtype = "datetime" THEN StrOfDate(value)
    ELSE IF dtype = "number" THEN StrOfNumber(value[1])
    ELSE value

Column(df, name) == [i \in 1..Len(df.rows) |-> df.rows[i][name]]

\* df[name] = values: the column is replaced, or appended when it is new.
SetColumn(df, name, dtype, values) ==
    [kind |-> "DataFrame",
     columns |-> IF name \in Range(df.columns) THEN df.columns ELSE Append(df.columns, name),
     dtypes |-> [c \in Range(df.columns) \cup {name} |->
                   IF c = name THEN dtype ELSE df.dtypes[c]],
     rows |-> [i \in 1..Len(df.rows) |->
                 [c \in Range(df.columns) \cup {name} |->
                    IF c = name THEN values[i] ELSE df.rows[i][c]]]]

\* df.rename(columns={old: new, ...}); names that are no column are ignored.
\* No file of the model makes two columns share a name.
Rename(df, mapping) ==
    LET to(c) == IF c \in DOMAIN mapping THEN mapping[c] ELSE c
        from(n) == CHOOSE c \in Range(df.columns) : to(c) = n
        names == {to(c) : c \in Range(df.columns)}
    IN  [kind |-> "DataFrame",
         columns |-> [i \in 1..Len(df.columns) |-> to(df.columns[i])],
         dtypes |-> [n \in names |-> df.dtypes[from(n)]],
         rows |-> [i \in 1..Len(df.rows) |-> [n \in names |-> df.rows[i][from(n)]]]]

\* pd.read_csv(io.StringIO(file_content.decode(encoding)), delimiter=delimiter):
\* the table of the file's texts.
read_csv(file) ==
    [kind |-> "DataFrame",
     columns |-> file.columns,
     dtypes |-> [c \in Range(file.columns) |-> "text"],
     rows |-> file.rows]

\* What the call gives back: the table, or None with the error reported.
Returns(df) == [value |-> df, error |-> FALSE]
Failure_Unreported == [value |-> None, error |-> FALSE]
Failure == [value |-> None, error |-> TRUE]

\* Lines 326-342: the columns derived from the parsed date column.
WithDateParts(df, dates) ==
    LET n == Len(df.rows)
        parts == [i \in 1..n |-> DateParts(dates[i])]
        d1 == SetColumn(df, "Anio", "number", [i \in 1..n |-> parts[i].Anio])
        d2 == SetColumn(d1, "Mes", "number", [i \in 1..n |-> parts[i].Mes])
        d3 == SetColumn(d2, "Mes_Nombre", "text", [i \in 1..n |-> parts[i].Mes_Nombre])
        d4 == SetColumn(d3, "Trimestre", "text", [i \in 1..n |-> parts[i].Trimestre])
    IN  SetColumn(d4, "Month", "text",
                  [i \in 1..n |-> IF dates[i] = NaT THEN NaN
                                  ELSE <<month_map[dates[i][2]], dates[i][1]>>])

\* Lines 344-377: the origin tag, the renames, and the Client, Partner and PM
\* columns as strings.
Finish(df0, columns) ==
    LET n == Len(df0.rows)
        d1 == SetColumn(df0, "Source", "text", [i \in 1..n |-> "NetSuite"])
        d2 == Rename(d1, (client_col(columns) :> "Client")
                         @@ (amount_col(columns) :> "Amount")
                         @@ (date_col(columns) :> "Date"))
        d3 == Rename(d2, (partner_col(columns) :> "Partner"))
        d4 == Rename(d3, (pm_col(columns) :> "PM"))
    IN  IF "Client" \notin Range(d4.columns) THEN Failure
        ELSE LET d5 == SetColumn(d4, "Client", "text",
                           [i \in 1..n |->
                              FillAndStr(d4.rows[i]["Client"], d4.dtypes["Client"],
                                         <<"n", "a", "n">>)])
                 partner == IF "Partner" \in Range(d5.columns)
                            THEN [i \in 1..n |->
                                    FillAndStr(d5.rows[i]["Partner"], d5.dtypes["Partner"],
                                               SinAsignar)]
                            ELSE [i \in 1..n |-> SinAsignar]
                 d6 == SetColumn(d5, "Partner", "text", partner)
                 d7 == SetColumn(d6, "Partner_Normalized", "text",
                           IF "Partner" \in Range(d5.columns)
                           THEN [i \in 1..n |-> normalize_name(PyStr(partner[i]))]
                           ELSE [i \in 1..n |-> lower(SinAsignar)])
                 pm == IF "PM" \in Range(d7.columns)
                       THEN [i \in 1..n |->
                               FillAndStr(d7.rows[i]["PM"], d7.dtypes["PM"], SinAsignar)]
                       ELSE [i \in 1..n |-> SinAsignar]
             IN  Returns(SetColumn(d7, "PM", "text", pm))

\* The amount conversion (lines 321-324) and what follows, on the table whose
\* date column was converted.
AfterDates(df, columns) ==
    LET ac == amount_col(columns)
        dc == date_col(columns)
    IN  IF ac \notin Range(df.columns) \/ dc \notin Range(df.columns) THEN Failure
        ELSE LET d1 == SetColumn(df, ac, "number", ConvertAmounts(Column(df, ac)))
             IN  Finish(WithDateParts(d1, Column(d1, dc)), columns)

\* process_netsuite_csv(file_content, delimiter, encoding): the set of possible
\* results.  A file that cannot be decoded or parsed, and every column lookup
\* that fails, ends in the except clause: the error is reported and None
\* returned.
process_netsuite_csv(file) ==
    IF file.kind # "csv" THEN {Failure}
    ELSE LET df == read_csv(file)
             columns == df.columns
             dc == date_col(columns)
         IN  IF dc \notin Range(columns) THEN {AfterDates(df, columns)}
             ELSE {AfterDates(SetColumn(df, dc, "datetime", dates), columns) :
                      dates \in to_datetime(Column(df, dc))}

\* ---------------------------------------------------------- uploaded files
\* Texts of the cells.
T_15_01_2024 == <<"1", "5", "/", "0", "1", "/", "2", "0", "2", "4">>
T_20_05_2024 == <<"2", "0", "/", "0", "5", "/", "2", "0", "2", "4">>
T_01_15_2024 == <<"0", "1", "/", "1", "5", "/", "2", "0", "2", "4">>
T_n_a == <<"n", "/", "a">>
T_Acme == <<"A", "c", "m", "e">>
T_Beta == <<"B", "e", "t", "a">>
T_Laura == <<"R", "o", "u", "b", "a", "k", "h", "i", "n", "e", ",", " ", "L", "a", "u", "r", "a">>
T_Pat == <<"P", "a", "t">>
T_P1 == <<"P", "1">>
T_1_500_00 == <<"1", ".", "5", "0", "0", ",", "0", "0">>
T_500_00 == <<"5", "0", "0", ",", "0", "0">>
T_1_500 == <<"1", ".", "5", "0", "0">>
T_abc == <<"a", "b", "c">>
T_2_000_5 == <<"2", " ", "0", "0", "0", ",", "5">>

\* A day-first date, one that is a date only month first, a text that is no
\* date, the empty cell.
DateCells == {T_15_01_2024, T_20_05_2024, T_01_15_2024, T_n_a, <<>>}

\* One file row: its date cell, and client, partner and amount cells.
RawRow(date, rest) ==
    [h \in HeaderNames |->
        CASE h = "Date" -> date
          [] h = "Customer Parent" -> rest[1]
          [] h = "Client Leader AUX" -> rest[2]
          [] h \in {"Total USD", "Amount"} -> rest[3]
          [] h = "PM" -> T_Pat
          [] h = "Project" -> T_P1]

\* Every date cell with one client, partner and amount, and one date with each
\* of the other clients, partners and amounts.
RawRows ==
    {RawRow(d, <<T_Acme, T_Laura, T_1_500_00>>) : d \in DateCells}
    \cup {RawRow(T_15_01_2024, r) :
            r \in {<<T_Beta, <<>>, T_500_00>>, <<T_Beta, T_Laura, T_abc>>,
                   <<T_Acme, <<>>, T_1_500>>, <<T_Beta, T_Laura, T_2_000_5>>}}

\* The header rows: the usual export, the partner column first, no partner and
\* no PM column, no date column, an unrelated first column, no client column,
\* no amount column.
Layouts ==
    {<<"Date", "Customer Parent", "Client Leader AUX", "PM", "Total USD">>,
     <<"Client Leader AUX", "Customer Parent", "Date", "PM", "Total USD">>,
     <<"Date", "Customer Parent", "Total USD">>,
     <<"Customer Parent", "Amount">>,
     <<"Project", "Date", "Customer Parent", "Amount">>,
     <<"Date", "Project", "Total USD">>,
     <<"Date", "Customer Parent">>}

Restrict(row, columns) == [h \in Range(columns) |-> row[h]]

CsvFile(columns, rows) == [kind |-> "csv", columns |-> columns, rows |-> rows]

FilesWith(columns) ==
    {CsvFile(columns, rows) :
        rows \in UNION {[1..k -> {Restrict(r, columns) : r \in RawRows}] :
                          k \in 0..MaxFileRows}}

Files ==
    {[kind |-> "undecodable"], [kind |-> "unparsable"]}
    \cup UNION {FilesWith(columns) : columns \in Layouts}

\* ----------------------------------------------------------- the differ
\* A percentage is the ratio of two integers, an infinity, or not a number.
Inf == [kind |-> "inf"]
NegInf == [kind |-> "-inf"]
NotANumber == [kind |-> "nan"]
Ratio(num, den) == [kind |-> "float", num |-> num, den |-> den]

\* The keys of df.groupby(column): a row whose key is missing is in no group.
GroupKeys(df, column) == {df.rows[i][column] : i \in 1..Len(df.rows)} \ {NA}

\* df.groupby(group_column)['Amount'].sum(): the series of the group totals;
\* NaN amounts are skipped.
prepare_comparison_data(df, group_column) ==
    [g \in GroupKeys(df, group_column) |->
        LET sel == SelectSeq(df.rows, LAMBDA r : r[group_column] = g)
        IN  nansum([i \in 1..Len(sel) |-> sel[i].Amount])]

\* series.get(key, default)
get(series, key, default) == IF key \in DOMAIN series THEN series[key] ELSE default

\* series.sum()
RECURSIVE SeriesSum(_)
SeriesSum(series) ==
    IF DOMAIN series = {} THEN 0
    ELSE LET k == CHOOSE x \in DOMAIN series : TRUE
         IN  series[k] + SeriesSum([x \in DOMAIN series \ {k} |-> series[x]])

change_amount_CurrentOnly(current_amount, previous_amount) == current_amount

change_amount_Magnitude(current_amount, previous_amount) ==
    IF current_amount < previous_amount THEN previous_amount - current_amount
    ELSE current_amount - previous_amount

\* change_amount = current_amount - previous_amount
change_amount(current_amount, previous_amount) == current_amount - previous_amount

change_percent_Fraction(change, previous_amount) ==
    IF previous_amount # 0 THEN Ratio(change, previous_amount) ELSE Inf

change_percent_Unguarded(change, previous_amount) ==
    IF previous_amount # 0 THEN Ratio(change * 100, previous_amount)
    ELSE IF change > 0 THEN Inf
    ELSE IF change < 0 THEN NegInf
    ELSE NotANumber

\* (change_amount / previous_amount * 100) if previous_amount != 0 else float('inf')
change_percent(change, previous_amount) ==
    IF previous_amount # 0 THEN Ratio(change * 100, previous_amount) ELSE Inf

\* The entry of one group in the dict of changes.
ChangeOf(current_totals, previous_totals, group) ==
    LET current_amount == get(current_totals, group, 0)
        previous_amount == get(previous_totals, group, 0)
        change == change_amount(current_amount, previous_amount)
    IN  [current_amount |-> current_amount,
         previous_amount |-> previous_amount,
         change_amount |-> change,
         change_percent |-> change_percent(change, previous_amount)]

all_groups_CurrentOnly(current_totals, previous_totals) == DOMAIN current_totals

\* set(current_totals.index) | set(previous_totals.index)
all_groups(current_totals, previous_totals) ==
    DOMAIN current_totals \cup DOMAIN previous_totals

summary_OfCommonGroups(current_totals, previous_totals) ==
    LET common == DOMAIN current_totals \cap DOMAIN previous_totals
        total_current == SeriesSum([g \in common |-> current_totals[g]])
        total_previous == SeriesSum([g \in common |-> previous_totals[g]])
    IN  [total_current |-> total_current,
         total_previous |-> total_previous,
         total_change_amount |-> total_current - total_previous,
         total_change_percent |->
             change_percent(total_current - total_previous, total_previous)]

\* The summary dict: the sums of the two series of totals.
summary(current_totals, previous_totals) ==
    LET total_current == SeriesSum(current_totals)
        total_previous == SeriesSum(previous_totals)
    IN  [total_current |-> total_current,
         total_previous |-> total_previous,
         total_change_amount |-> total_current - total_previous,
         total_change_percent |->
             change_percent(total_current - total_previous, total_previous)]

compare_versions(current_df, previous_df) ==
    LET current_totals == prepare_comparison_data(current_df, "Client")
        previous_totals == prepare_comparison_data(previous_df, "Client")
        all_clients == all_groups(current_totals, previous_totals)
    IN  [client_changes |->
            [client \in all_clients |-> ChangeOf(current_totals, previous_totals, client)],
         summary |-> summary(current_totals, previous_totals)]

\* abs(x)
Abs(x) == IF x < 0 THEN 0 - x ELSE x

\* The orders of the groups that are non-increasing in |change_amount|.
ByAbsChange(changes) ==
    {q \in Orderings(DOMAIN changes) :
        \A i \in 1..(Len(q) - 1) :
            Abs(changes[q[i]].change_amount) >= Abs(changes[q[i + 1]].change_amount)}

sorted_changes_Top1(changes) ==
    {[i \in 1..(IF Len(p) > 0 THEN 1 ELSE 0) |-> <<p[i], changes[p[i]]>>] :
        p \in ByAbsChange(changes)}

\* sorted(changes.items(), key=lambda x: abs(x[1]['change_amount']), reverse=True):
\* the items of the dict come in the iteration order of a set of strings, which
\* differs from run to run, so groups with equal |change_amount| can come out
\* in any order.
sorted_changes(changes) ==
    {[i \in 1..Len(p) |-> <<p[i], changes[p[i]]>>] : p \in ByAbsChange(changes)}

\* The set of lists compare_versions_by_group can return.
compare_versions_by_group(current_df, previous_df, group_column) ==
    LET current_totals == prepare_comparison_data(current_df, group_column)
        previous_totals == prepare_comparison_data(previous_df, group_column)
        groups == all_groups(current_totals, previous_totals)
    IN  sorted_changes([group \in groups |->
                           ChangeOf(current_totals, previous_totals, group)])

\* The columns the comparison tab groups by: the first of the project code
\* names, of the partner names and of the PM names that is a column of both
\* datasets.
project_code_column == "Project Code"
partner_column == "Partner"
pm_column == "PM"

\* df.groupby(['Año', 'Mes_Nombre'])['Amount'].sum().reset_index(): one row per
\* (year, month name) of the dated rows.
MonthlyTotals(df) ==
    LET dated == SelectSeq(df.rows, LAMBDA r : ~IsNaN(r.Anio) /\ r.Mes_Nombre # NA)
        keys == {<<dated[i].Anio[1], dated[i].Mes_Nombre>> : i \in 1..Len(dated)}
    IN  {[Anio |-> k[1], Mes_Nombre |-> k[2],
          Amount |-> LET sel == SelectSeq(dated, LAMBDA r :
                                    r.Anio = <<k[1]>> /\ r.Mes_Nombre = k[2])
                     IN  nansum([i \in 1..Len(sel) |-> sel[i].Amount])] : k \in keys}

\* month_order_dict
month_order_dict(name) == CHOOSE m \in 1..12 : month_order[m] = name

\* Cambio_Monto / Amount_anterior * 100 on float columns: a division by zero
\* gives an infinity, or NaN for 0 / 0.
Cambio_Porcentaje(change, previous_amount) ==
    IF previous_amount # 0 THEN Ratio(change * 100, previous_amount)
    ELSE IF change > 0 THEN Inf
    ELSE IF change < 0 THEN NegInf
    ELSE NotANumber

\* pd.merge(current_monthly, previous_monthly, on='Mes_Nombre',
\*          suffixes=('_actual', '_anterior')): an inner join on the month name
\* alone, then the order and change columns.
MergedMonths(current_monthly, previous_monthly) ==
    LET pairs == {cp \in current_monthly \X previous_monthly :
                     cp[1].Mes_Nombre = cp[2].Mes_Nombre}
    IN  {[Anio_actual |-> cp[1].Anio, Anio_anterior |-> cp[2].Anio,
          Mes_Nombre |-> cp[1].Mes_Nombre,
          Amount_actual |-> cp[1].Amount, Amount_anterior |-> cp[2].Amount,
          Mes_Orden |-> month_order_dict(cp[1].Mes_Nombre),
          Cambio_Monto |-> cp[1].Amount - cp[2].Amount,
          Cambio_Porcentaje |->
              Cambio_Porcentaje(cp[1].Amount - cp[2].Amount, cp[2].Amount)] : cp \in pairs}

\* The month comparison of the tab: the set of tables it can show.
\* sort_values('Mes_Orden') is not a stable sort, so rows of the same month
\* can come out in any order.
MonthlyComparison(current_df, previous_df) ==
    LET merged == MergedMonths(MonthlyTotals(current_df), MonthlyTotals(previous_df))
    IN  {q \in Orderings(merged) :
            \A i \in 1..(Len(q) - 1) : q[i].Mes_Orden <= q[i + 1].Mes_Orden}

\* The rows of the two datasets that are compared: two clients, two years, a
\* negative and an unparsable amount, an undated row, a row without a project
\* code.
DiffRow(client, date, amount, partner, pm, code) ==
    ("Project Code" :> code) @@ CanonicalRow(client, date, amount, partner, pm)

DiffRecords ==
    {DiffRow("Acme", <<2024, 1, 15>>, <<1>>, "Ana", "Pat", "P1"),
     DiffRow("Acme", <<2024, 2, 20>>, <<2>>, "Ana", "Sin asignar", "P2"),
     DiffRow("Beta", <<2024, 1, 15>>, <<2>>, "Sin asignar", "Pat", NA),
     DiffRow("Beta", <<2025, 1, 10>>, <<-1>>, "Sin asignar", "Pat", "P3"),
     DiffRow("Beta", NaT, NaN, "Ana", "Pat", "P2")}

DiffDatasets == {DataFrame(rows) : rows \in SeqsUpTo(DiffRecords, MaxDiffRows)}

PreviousDatasets ==
    {None} \cup {DataFrame(rows) : rows \in SeqsUpTo(DiffRecords, MaxPreviousRows)}

\* ------------------------------------------------------- the cell format
round_HalfAwayFromZero(num, den) ==
    LET floor == Abs(num) \div den
        nearest == IF 2 * (Abs(num) % den) >= den THEN floor + 1 ELSE floor
    IN  IF num < 0 THEN 0 - nearest ELSE nearest

\* round(num / den) for den > 0: the nearest integer, a half going to the
\* even neighbour.
round(num, den) ==
    LET floor == Abs(num) \div den
        twice == 2 * (Abs(num) % den)
        nearest == IF twice > den \/ (twice = den /\ floor % 2 = 1)
                   THEN floor + 1 ELSE floor
    IN  IF num < 0 THEN 0 - nearest ELSE nearest

\* f"{n}" of an int
IntText(n) == IF n < 0 THEN <<"-">> \o NatText(0 - n) ELSE NatText(n)

\* format_miles(x) for x NaN or a float given in thousandths.
format_miles(x) ==
    IF IsNaN(x) \/ x = <<0>> THEN <<>>
    ELSE IntText(round(x[1], 1000 * 1000)) \o <<"K">>

\* The names handed to normalize_name: every text of at most MaxNameLen
\* characters over an upper-case letter, a lower-case letter, the blank and the
\* comma, and a value that is not a str.
NameChars == {"A", "b", " ", ","}
Names == {PyStr(chars) : chars \in SeqsUpTo(NameChars, MaxNameLen)} \cup {NotAStr}

\* The cells handed to format_miles: NaN, the multiples of 100 up to
\* MaxHundreds hundreds of either sign, and amounts next to zero and to a half.
Cells ==
    {NaN} \cup {<<h * 100000>> : h \in (0 - MaxHundreds)..MaxHundreds}
          \cup {<<1>>, <<-1>>, <<499999>>, <<500001>>, <<-500001>>}

\* ------------------------------------------------------------ the session
\* The texts of the uploaded files as the values the tabs group and sort by.
Text(chars) ==
    CASE chars = T_Acme -> "Acme"
      [] chars = T_Beta -> "Beta"
      [] chars = T_Laura -> "Roubakhine, Laura"
      [] chars = T_Pat -> "Pat"
      [] chars = SinAsignar -> "Sin asignar"

\* The session's dataset as the tabs read it: the rows process_netsuite_csv
\* returned, with their Client, Partner and PM.
Canonical(df) ==
    DataFrame([i \in 1..Len(df.rows) |->
        [df.rows[i] EXCEPT !["Client"] = Text(@), !["Partner"] = Text(@), !["PM"] = Text(@)]])

\* col in df.columns
HasColumn(df, col) == col \in Range(df.columns)

\* The files uploaded in a session: one row, two rows of which one has no
\* date and one no partner, and a file that cannot be decoded.
UsualLayout == <<"Date", "Customer Parent", "Client Leader AUX", "PM", "Total USD">>
SessionFiles ==
    {CsvFile(UsualLayout,
             <<Restrict(RawRow(T_15_01_2024, <<T_Acme, T_Laura, T_1_500_00>>), UsualLayout)>>),
     CsvFile(UsualLayout,
             <<Restrict(RawRow(T_15_01_2024, <<T_Beta, <<>>, T_500_00>>), UsualLayout),
               Restrict(RawRow(T_n_a, <<T_Acme, T_Laura, T_1_500_00>>), UsualLayout)>>),
     [kind |-> "undecodable"]}

StoredResult_KeptOnFailure(old, processed) ==
    IF processed.value = None THEN old ELSE processed.value

\* st.session_state.netsuite_data = process_netsuite_csv(...): the value the
\* call returned replaces the stored one, None included.
StoredResult(old, processed) == processed.value

AfterTabs_FilteredInPlace(data, filtered) ==
    IF data.kind = "None" THEN data
    ELSE [data EXCEPT !.rows = SubSeq(data.rows, 1, Len(filtered.rows))]

\* The session's dataset once the tabs ran: the filters work on a copy, and
\* generate_report, compare_versions and compare_versions_by_group build new
\* tables without assigning to the one they are given.
AfterTabs(data, filtered) == data

\* ---------------------------------------------------------------- state
VARIABLES
    pc,                 \* "call" before generate_report ran, "returned" after
    netsuite_df,        \* the argument of generate_report
    report_table,       \* its result
    netsuite_data,      \* st.session_state.netsuite_data
    filtered_netsuite,  \* the filtered copy the dashboard tab builds
    shown,              \* what the tab displays: "nothing", "table", "warning"
    netsuite_file,      \* the uploaded file
    st_error,           \* whether st.error reported a failure
    previous_netsuite_data,  \* st.session_state.previous_netsuite_data
    version_comparison, \* the result of compare_versions
    project_changes,    \* the results of compare_versions_by_group
    partner_changes,
    pm_changes,
    monthly_comparison, \* the table of the month comparison
    call,               \* a call of a pure function: its name and argument
    call_result,        \* the value the call returned
    clicked,            \* the button pressed in this run of the script
    previous_netsuite_file  \* the uploaded file of the earlier version

\* The variables of the comparison tab.
diffVars == <<previous_netsuite_data, version_comparison, project_changes,
              partner_changes, pm_changes, monthly_comparison>>

\* The variables of a single function call and of the upload buttons.
callVars == <<call, call_result>>
buttonVars == <<clicked, previous_netsuite_file>>

vars == <<pc, netsuite_df, report_table, netsuite_data, filtered_netsuite, shown,
          netsuite_file, st_error, diffVars, callVars, buttonVars>>

Unset == [kind |-> "Unset"]

\* No earlier version is loaded and nothing is compared.
NoComparison ==
    /\ previous_netsuite_data = None
    /\ version_comparison = Unset
    /\ project_changes = Unset
    /\ partner_changes = Unset
    /\ pm_changes = Unset
    /\ monthly_comparison = Unset

\* No function is called on its own and no button is pressed.
NoCall ==
    /\ call = Unset
    /\ call_result = Unset
    /\ clicked = "none"
    /\ previous_netsuite_file = Unset

\* generate_report(netsuite_df)
GenerateReport ==
    /\ pc = "call"
    /\ report_table' \in generate_report(netsuite_df)
    /\ pc' = "returned"
    /\ UNCHANGED <<netsuite_df, netsuite_data, filtered_netsuite, shown,
                   netsuite_file, st_error, diffVars, callVars, buttonVars>>

\* One run of the dashboard tab: the user's filter selections, the filtered
\* copy, the report and what is displayed.
Tab1 ==
    /\ netsuite_data.kind # "None"
    /\ \E selected_clients \in SUBSET ColumnValues(netsuite_data, "Client"),
          selected_year \in {"Todos"} \cup year_options(netsuite_data),
          selected_quarter \in {"Todos"} \cup Range(quarter_order),
          selected_partners \in SUBSET ColumnValues(netsuite_data, "Partner"),
          selected_pms \in SUBSET ColumnValues(netsuite_data, "PM") :
        /\ filtered_netsuite' = ApplyFilters(netsuite_data, selected_clients, selected_year,
                                             selected_quarter, selected_partners, selected_pms)
        /\ netsuite_df' = filtered_netsuite'
        /\ report_table' \in generate_report(filtered_netsuite')
        /\ shown' = Display(report_table')
    /\ pc' = "returned"
    /\ UNCHANGED <<netsuite_data, netsuite_file, st_error, diffVars, callVars, buttonVars>>

\* The button "Procesar archivo de NetSuite": the file is read and the result
\* of process_netsuite_csv stored in the session.
ProcessFile ==
    /\ pc = "upload"
    /\ \E result \in process_netsuite_csv(netsuite_file) :
          /\ netsuite_data' = result.value
          /\ st_error' = result.error
    /\ pc' = "processed"
    /\ UNCHANGED <<netsuite_df, report_table, filtered_netsuite, shown, netsuite_file,
                   diffVars, callVars, buttonVars>>

\* The aggregator alone: generate_report applied to every bounded table.
Init ==
    /\ pc = "call"
    /\ netsuite_df \in ReportInputs
    /\ report_table = Unset
    /\ netsuite_data = None
    /\ filtered_netsuite = Unset
    /\ shown = "nothing"
    /\ netsuite_file = Unset
    /\ st_error = FALSE
    /\ NoComparison
    /\ NoCall

Next == GenerateReport

Spec == Init /\ [][Next]_vars

\* The dashboard: a session that holds a dataset (or none), the tab run with
\* any filter selections, and generate_report called on an absent or empty
\* table.
InitDash ==
    /\ pc = "call"
    /\ netsuite_df \in {None, DataFrame(<<>>)}
    /\ report_table = Unset
    /\ netsuite_data \in DashDatasets
    /\ filtered_netsuite = Unset
    /\ shown = "nothing"
    /\ netsuite_file = Unset
    /\ st_error = FALSE
    /\ NoComparison
    /\ NoCall

NextDash == GenerateReport \/ Tab1

SpecDash == InitDash /\ [][NextDash]_vars

\* The Normalizer: a file is uploaded and processed.
InitNorm ==
    /\ pc = "upload"
    /\ netsuite_df = None
    /\ report_table = Unset
    /\ netsuite_data = None
    /\ filtered_netsuite = Unset
    /\ shown = "nothing"
    /\ netsuite_file \in Files
    /\ st_error = FALSE
    /\ NoComparison
    /\ NoCall

NextNorm == ProcessFile

SpecNorm == InitNorm /\ [][NextNorm]_vars

\* One run of the comparison tab with an earlier version loaded: the comparison
\* by client, by project code, by partner and by PM, and the month comparison.
Tab4 ==
    /\ pc = "compare"
    /\ netsuite_data.kind # "None"
    /\ previous_netsuite_data.kind # "None"
    /\ version_comparison' = compare_versions(netsuite_data, previous_netsuite_data)
    /\ project_changes' \in compare_versions_by_group(netsuite_data, previous_netsuite_data,
                                                      project_code_column)
    /\ partner_changes' \in compare_versions_by_group(netsuite_data, previous_netsuite_data,
                                                      partner_column)
    /\ pm_changes' \in compare_versions_by_group(netsuite_data, previous_netsuite_data,
                                                 pm_column)
    /\ monthly_comparison' \in MonthlyComparison(netsuite_data, previous_netsuite_data)
    /\ pc' = "compared"
    /\ UNCHANGED <<netsuite_df, report_table, netsuite_data, filtered_netsuite, shown,
                   netsuite_file, st_error, previous_netsuite_data, callVars, buttonVars>>

\* The comparison tab: a session that holds the current dataset and an
\* earlier one (or none).
InitDiff ==
    /\ pc = "compare"
    /\ netsuite_df = None
    /\ report_table = Unset
    /\ netsuite_data \in DiffDatasets
    /\ filtered_netsuite = Unset
    /\ shown = "nothing"
    /\ netsuite_file = Unset
    /\ st_error = FALSE
    /\ previous_netsuite_data \in PreviousDatasets
    /\ version_comparison = Unset
    /\ project_changes = Unset
    /\ partner_changes = Unset
    /\ pm_changes = Unset
    /\ monthly_comparison = Unset
    /\ NoCall

NextDiff == Tab4

SpecDiff == InitDiff /\ [][NextDiff]_vars

\* normalize_name(name)
NormalizeName ==
    /\ pc = "apply"
    /\ call.fn = "normalize_name"
    /\ call_result' = normalize_name(call.arg)
    /\ pc' = "applied"
    /\ UNCHANGED <<netsuite_df, report_table, netsuite_data, filtered_netsuite, shown,
                   netsuite_file, st_error, diffVars, call, buttonVars>>

\* format_miles(x)
FormatMiles ==
    /\ pc = "apply"
    /\ call.fn = "format_miles"
    /\ call_result' = format_miles(call.arg)
    /\ pc' = "applied"
    /\ UNCHANGED <<netsuite_df, report_table, netsuite_data, filtered_netsuite, shown,
                   netsuite_file, st_error, diffVars, call, buttonVars>>

\* The two text functions alone, each applied to every bounded argument.
InitPure ==
    /\ pc = "apply"
    /\ \/ \E name \in Names : call = [fn |-> "normalize_name", arg |-> name]
       \/ \E x \in Cells : call = [fn |-> "format_miles", arg |-> x]
    /\ call_result = Unset
    /\ clicked = "none"
    /\ previous_netsuite_file = Unset
    /\ netsuite_df = None
    /\ report_table = Unset
    /\ netsuite_data = None
    /\ filtered_netsuite = Unset
    /\ shown = "nothing"
    /\ netsuite_file = Unset
    /\ st_error = FALSE
    /\ NoComparison

NextPure == NormalizeName \/ FormatMiles

SpecPure == InitPure /\ [][NextPure]_vars

\* The rest of one run of the script once the buttons are handled: the tabs
\* are built when the session holds a current dataset, the dashboard tab with
\* the user's filter selections, and the comparison tab compares when an
\* earlier version is held too.  The datasets are left as the tabs leave them.
Dashboard(current, previous) ==
    IF current.kind = "None"
    THEN /\ filtered_netsuite' = Unset
         /\ netsuite_df' = None
         /\ report_table' = Unset
         /\ shown' = "nothing"
         /\ version_comparison' = Unset
         /\ project_changes' = Unset
         /\ partner_changes' = Unset
         /\ pm_changes' = Unset
         /\ monthly_comparison' = Unset
         /\ netsuite_data' = current
         /\ previous_netsuite_data' = previous
    ELSE LET data == Canonical(current)
         IN  /\ filtered_netsuite' \in
                    {ApplyFilters(data, selected_clients, selected_year, selected_quarter,
                                  selected_partners, selected_pms) :
                        selected_clients \in SUBSET ColumnValues(data, "Client"),
                        selected_year \in {"Todos"} \cup year_options(data),
                        selected_quarter \in {"Todos"} \cup Range(quarter_order),
                        selected_partners \in SUBSET ColumnValues(data, "Partner"),
                        selected_pms \in SUBSET ColumnValues(data, "PM")}
             /\ netsuite_df' = filtered_netsuite'
             /\ report_table' \in generate_report(filtered_netsuite')
             /\ shown' = Display(report_table')
             /\ netsuite_data' = AfterTabs(current, filtered_netsuite')
             /\ previous_netsuite_data' = AfterTabs(previous, filtered_netsuite')
             /\ IF previous.kind = "None"
                THEN /\ version_comparison' = Unset
                     /\ project_changes' = Unset
                     /\ partner_changes' = Unset
                     /\ pm_changes' = Unset
                     /\ monthly_comparison' = Unset
                ELSE LET before == Canonical(previous)
                         both(col) == HasColumn(current, col) /\ HasColumn(previous, col)
                     IN  /\ version_comparison' = compare_versions(data, before)
                         /\ project_changes' \in
                               IF both(project_code_column)
                               THEN compare_versions_by_group(data, before, project_code_column)
                               ELSE {Unset}
                         /\ partner_changes' \in
                               IF both(partner_column)
                               THEN compare_versions_by_group(data, before, partner_column)
                               ELSE {Unset}
                         /\ pm_changes' \in
                               IF both(pm_column)
                               THEN compare_versions_by_group(data, before, pm_column)
                               ELSE {Unset}
                         /\ monthly_comparison' \in MonthlyComparison(data, before)

\* A run of the script after the user put a file into one of the two
\* uploaders, or took it out: no button is pressed.
Upload ==
    /\ pc \in {"session", "ran"}
    /\ \/ netsuite_file' \in (SessionFiles \cup {None}) \ {netsuite_file}
          /\ UNCHANGED previous_netsuite_file
       \/ previous_netsuite_file' \in (SessionFiles \cup {None}) \ {previous_netsuite_file}
          /\ UNCHANGED netsuite_file
    /\ clicked' = "none"
    /\ st_error' = FALSE
    /\ Dashboard(netsuite_data, previous_netsuite_data)
    /\ pc' = "ran"
    /\ UNCHANGED callVars

\* A run of the script with the button "Procesar archivo de NetSuite" pressed.
ProcessCurrent ==
    /\ pc \in {"session", "ran"}
    /\ netsuite_file # None
    /\ clicked' = "current"
    /\ \E processed \in process_netsuite_csv(netsuite_file) :
          /\ st_error' = processed.error
          /\ Dashboard(StoredResult(netsuite_data, processed), previous_netsuite_data)
    /\ pc' = "ran"
    /\ UNCHANGED <<netsuite_file, previous_netsuite_file, callVars>>

\* A run of the script with the button "Procesar archivo anterior de
\* NetSuite" pressed.
ProcessPrevious ==
    /\ pc \in {"session", "ran"}
    /\ previous_netsuite_file # None
    /\ clicked' = "previous"
    /\ \E processed \in process_netsuite_csv(previous_netsuite_file) :
          /\ st_error' = processed.error
          /\ Dashboard(netsuite_data, StoredResult(previous_netsuite_data, processed))
    /\ pc' = "ran"
    /\ UNCHANGED <<netsuite_file, previous_netsuite_file, callVars>>

\* A run of the script after the user changed a filter of the dashboard tab.
Interact ==
    /\ pc = "ran"
    /\ netsuite_data # None
    /\ clicked' = "none"
    /\ st_error' = FALSE
    /\ Dashboard(netsuite_data, previous_netsuite_data)
    /\ pc' = "ran"
    /\ UNCHANGED <<netsuite_file, previous_netsuite_file, callVars>>

\* A session from its start: nothing uploaded, both datasets None.
InitSession ==
    /\ pc = "session"
    /\ netsuite_file = None
    /\ previous_netsuite_file = None
    /\ clicked = "none"
    /\ netsuite_data = None
    /\ previous_netsuite_data = None
    /\ st_error = FALSE
    /\ netsuite_df = None
    /\ report_table = Unset
    /\ filtered_netsuite = Unset
    /\ shown = "nothing"
    /\ version_comparison = Unset
    /\ project_changes = Unset
    /\ partner_changes = Unset
    /\ pm_changes = Unset
    /\ monthly_comparison = Unset
    /\ call = Unset
    /\ call_result = Unset

NextSession == Upload \/ ProcessCurrent \/ ProcessPrevious \/ Interact

SpecSession == InitSession /\ [][NextSession]_vars

\* ------------------------------------------------------------ properties
Returned == pc = "returned" /\ report_table.kind = "DataFrame"
Anual == <<"Total", "Anual">>
InputRows == IF netsuite_df.kind = "None" THEN <<>> ELSE netsuite_df.rows
InputClients == {InputRows[i].Client : i \in 1..Len(InputRows)}
InputQuarters ==
    {q \in Range(quarter_order) : \E i \in 1..Len(InputRows) : InputRows[i].Trimestre = q}
ClientLabels == SelectSeq(report_table.index, LAMBDA l : l # "Total")

\* Sum of the cells of row l of the returned table over the columns in cols.
RECURSIVE RowSum(_, _)
RowSum(l, cols) ==
    IF cols = {} THEN 0
    ELSE LET c == CHOOSE x \in cols : TRUE
         IN  report_table.data[l][c] + RowSum(l, cols \ {c})

\* Sum of column col of the returned table over the rows in labels.
RECURSIVE ColSum(_, _)
ColSum(col, labels) ==
    IF labels = {} THEN 0
    ELSE LET l == CHOOSE x \in labels : TRUE
         IN  report_table.data[l][col] + ColSum(col, labels \ {l})

MonthColumns == {c \in Range(report_table.columns) : c[1] # "Total"}

\* C1: in every row of the returned pivot the ("Total","Anual") cell equals the
\* sum of that row's (quarter, month) cells alone; the ("Total", Qn) subtotals
\* are not added in, so no amount is counted twice.
C1_AnualIsSumOfMonths ==
    Returned =>
        \A l \in Range(report_table.index) :
            report_table.data[l][Anual] = RowSum(l, MonthColumns)

\* A returned row with a non-zero quarter subtotal: adding the subtotals in
\* would change its annual total.
C1_Witness ==
    /\ Returned
    /\ \E l \in Range(ClientLabels) : \E q \in Range(quarter_order) :
          /\ <<"Total", q>> \in Range(report_table.columns)
          /\ report_table.data[l][<<"Total", q>>] > 0

\* C2: for every quarter Q1..Q4 that occurs in the input the returned pivot has
\* a ("Total", Qn) column, and in every row its value is the sum of that row's
\* month cells under Qn.
C2_QuarterSubtotals ==
    Returned =>
        \A q \in InputQuarters :
            /\ <<"Total", q>> \in Range(report_table.columns)
            /\ \A l \in Range(report_table.index) :
                  report_table.data[l][<<"Total", q>>]
                      = RowSum(l, {c \in MonthColumns : c[1] = q})

\* A client row with two non-zero month cells under the same quarter.
C2_Witness ==
    /\ Returned
    /\ \E l \in Range(ClientLabels) : \E c, d \in MonthColumns :
          /\ c # d /\ c[1] = d[1]
          /\ report_table.data[l][c] > 0 /\ report_table.data[l][d] > 0

\* C3: in the returned pivot the "Total" row equals, in every column, the sum
\* of that column over all the client rows.
C3_TotalRowIsColumnSum ==
    Returned =>
        \A col \in Range(report_table.columns) :
            report_table.data["Total"][col] = ColSum(col, Range(ClientLabels))

\* C4: for a non-empty input the returned pivot has one row per distinct client
\* of the input, then exactly one row labelled "Total", which is the last row.
C4_OneRowPerClientThenTotal ==
    (pc = "returned" /\ ~IsEmptyInput(netsuite_df)) =>
        /\ report_table.kind = "DataFrame"
        /\ Len(report_table.index) = Cardinality(InputClients) + 1
        /\ report_table.index[Len(report_table.index)] = "Total"
        /\ {report_table.index[i] : i \in 1..(Len(report_table.index) - 1)} = InputClients

MonthNumber(name) == CHOOSE m \in 1..12 : month_order[m] = name

\* C5: under each quarter the month columns of the returned pivot appear in
\* calendar order, whatever the order of the months in the input rows and
\* whatever their alphabetical order.
C5_MonthsInCalendarOrder ==
    Returned =>
        \A i, j \in 1..Len(report_table.columns) :
            LET c == report_table.columns[i]
                d == report_table.columns[j]
            IN  (i < j /\ c[1] # "Total" /\ c[1] = d[1])
                    => MonthNumber(c[2]) < MonthNumber(d[2])

\* The input has February before January (first-seen and alphabetical order
\* are both February, January) and the pivot has both columns under Q1.
C5_Witness ==
    /\ Returned
    /\ \E i, j \in 1..Len(InputRows) :
          /\ i < j
          /\ InputRows[i].Mes_Nombre = "February"
          /\ InputRows[j].Mes_Nombre = "January"
          /\ \A k \in 1..(j - 1) : InputRows[k].Mes_Nombre # "January"
    /\ {<<"Q1", "January">>, <<"Q1", "February">>} \subseteq Range(report_table.columns)

\* The column sequence the input calls for: the (quarter, month) pairs of the
\* dated rows by quarter Q1..Q4 and calendar month, the ("Total", Qn) of the
\* quarters that occur, ("Total", "Anual").
ExpectedColumns ==
    LET qs == SelectSeq(quarter_order, LAMBDA q : q \in InputQuarters)
        monthsOf(q) ==
            SelectSeq(month_order, LAMBDA m :
                \E i \in 1..Len(InputRows) :
                    InputRows[i].Trimestre = q /\ InputRows[i].Mes_Nombre = m)
    IN  Concat([k \in 1..Len(qs) |->
                  [i \in 1..Len(monthsOf(qs[k])) |-> <<qs[k], monthsOf(qs[k])[i]>>]])
        \o [k \in 1..Len(qs) |-> <<"Total", qs[k]>>]
        \o <<Anual>>

\* C6: the columns of the returned pivot are exactly the (quarter, month)
\* columns grouped by quarter in the order Q1..Q4 (quarters absent from the
\* input get no column), then one ("Total", Qn) per quarter present in the
\* same order, then ("Total", "Anual") last.
C6_ColumnSequence ==
    Returned => report_table.columns = ExpectedColumns

\* Two quarters occur in the input, so the order of quarters and of the two
\* blocks of columns is at stake.
C6_Witness ==
    /\ Returned
    /\ Cardinality(InputQuarters) >= 2

FirstOccurrence(client) ==
    CHOOSE i \in 1..Len(InputRows) :
        /\ InputRows[i].Client = client
        /\ \A k \in 1..(i - 1) : InputRows[k].Client # client

\* The result is one a stable sort produces: clients with equal annual totals
\* are left in the row order of the pivot (ascending client name).
TiesInPivotOrder ==
    \A i, j \in 1..Len(ClientLabels) :
        (i < j /\ report_table.data[ClientLabels[i]][Anual]
                    = report_table.data[ClientLabels[j]][Anual])
            => StrRank(ClientLabels[i]) < StrRank(ClientLabels[j])

C9_UndatedInputKeepsClients ==
    (/\ pc = "returned"
     /\ ~IsEmptyInput(netsuite_df)
     /\ \A i \in 1..Len(InputRows) : InputRows[i].Date = NaT) =>
        /\ report_table.kind = "DataFrame"
        /\ Anual \in Range(report_table.columns)
        /\ \A c \in InputClients :
              /\ c \in Range(report_table.index)
              /\ report_table.data[c][Anual] = 0

\* C8: generate_report returns None whenever its input is absent or has zero
\* rows, also when the filters of the tab leave no row of a non-empty dataset;
\* the tab then shows the warning and no table.
C8_EmptyInputGivesNone ==
    (pc = "returned" /\ (netsuite_df = None \/ netsuite_df = DataFrame(<<>>))) =>
        /\ report_table = None
        /\ shown # "table"
        /\ (filtered_netsuite # Unset => shown = "warning")

\* The filters left no row of a session dataset that has rows.
C8_Witness ==
    /\ pc = "returned"
    /\ netsuite_data.kind = "DataFrame"
    /\ Len(netsuite_data.rows) > 0
    /\ filtered_netsuite = DataFrame(<<>>)
    /\ shown = "warning"

\* The file lacks a column the Normalizer needs, or is no table at all.
UnusableFile ==
    \/ netsuite_file.kind # "csv"
    \/ "Date" \notin Range(netsuite_file.columns)
    \/ "Customer Parent" \notin Range(netsuite_file.columns)
    \/ Range(netsuite_file.columns) \cap {"Total USD", "Amount"} = {}

\* C10: the Normalizer drops or rejects no row for its date cell: a call fails
\* only on an unusable file, the table it returns has one row per row of the
\* file, every row whose date cell cannot be read has quarter "Sin Trimestre"
\* and no year, month or month name, and every other row has a quarter Q1..Q4.
C10_UnparsableDatesKept ==
    pc = "processed" =>
        /\ netsuite_data = None => UnusableFile
        /\ netsuite_data.kind = "DataFrame" =>
              /\ Len(netsuite_data.rows) = Len(netsuite_file.rows)
              /\ \A i \in 1..Len(netsuite_data.rows) :
                    LET row == netsuite_data.rows[i]
                        undated == /\ row.Trimestre = "Sin Trimestre"
                                   /\ IsNaN(row.Anio) /\ IsNaN(row.Mes)
                                   /\ row.Mes_Nombre = NA
                        dated == /\ row.Trimestre \in Range(quarter_order)
                                 /\ ~IsNaN(row.Anio) /\ ~IsNaN(row.Mes)
                                 /\ row.Mes_Nombre \in Range(month_order)
                    IN  /\ undated \/ dated
                        /\ DateFields(netsuite_file.rows[i]["Date"]) = <<>> => undated
                        /\ "Date" \in Range(netsuite_data.columns) =>
                              (row.Date = NaT <=> undated)

\* A two-row file whose first date cell is a text that is no date and whose
\* second is a date: both rows are in the table, the first without a quarter.
C10_Witness ==
    /\ pc = "processed"
    /\ netsuite_data.kind = "DataFrame"
    /\ Len(netsuite_data.rows) = 2
    /\ netsuite_file.rows[1]["Date"] = T_n_a
    /\ netsuite_data.rows[1].Trimestre = "Sin Trimestre"
    /\ netsuite_data.rows[2].Trimestre = "Q1"

\* C11: when the input has dated records too, every client that has a record
\* without a date (quarter "Sin Trimestre") is a row of the returned pivot,
\* also when none of the client's records has a date.
C11_UndatedRecordsAggregated ==
    (/\ pc = "returned"
     /\ ~IsEmptyInput(netsuite_df)
     /\ \E i \in 1..Len(InputRows) : InputRows[i].Date # NaT) =>
        /\ report_table.kind = "DataFrame"
        /\ \A i \in 1..Len(InputRows) :
              InputRows[i].Trimestre = "Sin Trimestre" =>
                  InputRows[i].Client \in Range(report_table.index)

\* ------------------------------------------- properties of the differ
Compared == pc = "compared"

\* The lists compare_versions_by_group returned, each with its group column.
GroupResults ==
    {<<project_code_column, project_changes>>, <<partner_column, partner_changes>>,
     <<pm_column, pm_changes>>}

\* The group keys of a dataset, and the total of one group, read off its rows.
KeysOf(df, column) == {df.rows[i][column] : i \in 1..Len(df.rows)} \ {NA}
RECURSIVE TotalWhere(_, _, _)
TotalWhere(rows, column, g) ==
    IF rows = <<>> THEN 0
    ELSE (IF Head(rows)[column] = g /\ ~IsNaN(Head(rows).Amount)
          THEN Head(rows).Amount[1] ELSE 0)
         + TotalWhere(Tail(rows), column, g)
GroupTotal(df, column, g) == TotalWhere(df.rows, column, g)

\* C12: every group's change_amount is the group's total in the current
\* dataset minus its total in the previous one, in compare_versions and in
\* compare_versions_by_group, and the summary's total_change_amount is
\* total_current minus total_previous.
C12_ChangeIsCurrentMinusPrevious ==
    Compared =>
        /\ \A g \in DOMAIN version_comparison.client_changes :
              version_comparison.client_changes[g].change_amount
                  = GroupTotal(netsuite_data, "Client", g)
                    - GroupTotal(previous_netsuite_data, "Client", g)
        /\ version_comparison.summary.total_change_amount
              = version_comparison.summary.total_current
                - version_comparison.summary.total_previous
        /\ \A r \in GroupResults : \A i \in 1..Len(r[2]) :
              r[2][i][2].change_amount
                  = GroupTotal(netsuite_data, r[1], r[2][i][1])
                    - GroupTotal(previous_netsuite_data, r[1], r[2][i][1])

\* A client and a project code with non-zero totals on both sides that differ.
C12_Witness ==
    /\ Compared
    /\ \E g \in DOMAIN version_comparison.client_changes :
          LET c == version_comparison.client_changes[g]
          IN  c.current_amount # 0 /\ c.previous_amount # 0 /\ c.change_amount < 0
    /\ \E i \in 1..Len(project_changes) :
          LET c == project_changes[i][2]
          IN  c.current_amount # 0 /\ c.previous_amount # 0 /\ c.change_amount # 0

\* C13: a group whose previous_amount is 0 has change_percent +infinity,
\* whatever its current_amount, and so has the summary when total_previous
\* is 0.
C13_ZeroPreviousGivesInfinity ==
    Compared =>
        /\ \A g \in DOMAIN version_comparison.client_changes :
              GroupTotal(previous_netsuite_data, "Client", g) = 0 =>
                  version_comparison.client_changes[g].change_percent = Inf
        /\ version_comparison.summary.total_previous = 0 =>
              version_comparison.summary.total_change_percent = Inf
        /\ \A r \in GroupResults : \A i \in 1..Len(r[2]) :
              GroupTotal(previous_netsuite_data, r[1], r[2][i][1]) = 0 =>
                  r[2][i][2].change_percent = Inf

\* A client with 0 on both sides, another with 0 before and an amount now,
\* and a summary whose total_previous is 0.
C13_Witness ==
    /\ Compared
    /\ \E g, h \in DOMAIN version_comparison.client_changes :
          /\ version_comparison.client_changes[g].previous_amount = 0
          /\ version_comparison.client_changes[g].current_amount = 0
          /\ version_comparison.client_changes[h].previous_amount = 0
          /\ version_comparison.client_changes[h].current_amount > 0
    /\ version_comparison.summary.total_previous = 0
    /\ version_comparison.summary.total_change_percent = Inf

\* C14: the groups of every result are the group keys of the current dataset
\* together with those of the previous one, and a group that only one dataset
\* has carries the amount 0 for the other.
C14_GroupsAreUnionOfKeys ==
    Compared =>
        /\ DOMAIN version_comparison.client_changes
              = KeysOf(netsuite_data, "Client") \cup KeysOf(previous_netsuite_data, "Client")
        /\ \A g \in DOMAIN version_comparison.client_changes :
              /\ g \notin KeysOf(netsuite_data, "Client") =>
                    version_comparison.client_changes[g].current_amount = 0
              /\ g \notin KeysOf(previous_netsuite_data, "Client") =>
                    version_comparison.client_changes[g].previous_amount = 0
        /\ \A r \in GroupResults :
              /\ {r[2][i][1] : i \in 1..Len(r[2])}
                    = KeysOf(netsuite_data, r[1]) \cup KeysOf(previous_netsuite_data, r[1])
              /\ \A i \in 1..Len(r[2]) :
                    /\ r[2][i][1] \notin KeysOf(netsuite_data, r[1]) =>
                          r[2][i][2].current_amount = 0
                    /\ r[2][i][1] \notin KeysOf(previous_netsuite_data, r[1]) =>
                          r[2][i][2].previous_amount = 0

\* One client only the current dataset has and one only the previous has,
\* both with an amount.
C14_Witness ==
    /\ Compared
    /\ \E g, h \in DOMAIN version_comparison.client_changes :
          /\ g \notin KeysOf(previous_netsuite_data, "Client")
          /\ version_comparison.client_changes[g].current_amount # 0
          /\ h \notin KeysOf(netsuite_data, "Client")
          /\ version_comparison.client_changes[h].previous_amount # 0

\* C15: the list compare_versions_by_group returns has one entry for every
\* group key of either dataset, no group twice, and is ordered by
\* |change_amount|, largest first.
C15_AllGroupsByAbsChange ==
    Compared =>
        \A r \in GroupResults :
            /\ Len(r[2]) = Cardinality(KeysOf(netsuite_data, r[1])
                                       \cup KeysOf(previous_netsuite_data, r[1]))
            /\ \A i, j \in 1..Len(r[2]) : i # j => r[2][i][1] # r[2][j][1]
            /\ \A i \in 1..(Len(r[2]) - 1) :
                  Abs(r[2][i][2].change_amount) >= Abs(r[2][i + 1][2].change_amount)

\* Three project codes, the largest change a negative one, the smallest
\* smaller in size.
C15_Witness ==
    /\ Compared
    /\ Len(project_changes) = 3
    /\ project_changes[1][2].change_amount < 0
    /\ Abs(project_changes[1][2].change_amount) > Abs(project_changes[3][2].change_amount)

\* The (year, month name) keys of the dated rows of a dataset, and the total of
\* one key.
MonthKeysOf(df) ==
    {<<df.rows[i].Anio[1], df.rows[i].Mes_Nombre>> :
        i \in {j \in 1..Len(df.rows) : ~IsNaN(df.rows[j].Anio)}}
RECURSIVE MonthTotalWhere(_, _)
MonthTotalWhere(rows, k) ==
    IF rows = <<>> THEN 0
    ELSE (IF Head(rows).Anio = <<k[1]>> /\ Head(rows).Mes_Nombre = k[2]
             /\ ~IsNaN(Head(rows).Amount)
          THEN Head(rows).Amount[1] ELSE 0)
         + MonthTotalWhere(Tail(rows), k)

\* C16: the month comparison has exactly one row for every (year, month name)
\* of either dataset, with the two totals of that year and month (0 for a
\* dataset without the key), in calendar order of the months.
C16_OneRowPerYearAndMonth ==
    Compared =>
        LET keys == MonthKeysOf(netsuite_data) \cup MonthKeysOf(previous_netsuite_data)
        IN  /\ Len(monthly_comparison) = Cardinality(keys)
            /\ \A k \in keys : \E i \in 1..Len(monthly_comparison) :
                  /\ monthly_comparison[i].Mes_Nombre = k[2]
                  /\ monthly_comparison[i].Anio_actual = k[1]
                  /\ monthly_comparison[i].Anio_anterior = k[1]
                  /\ monthly_comparison[i].Amount_actual
                        = MonthTotalWhere(netsuite_data.rows, k)
                  /\ monthly_comparison[i].Amount_anterior
                        = MonthTotalWhere(previous_netsuite_data.rows, k)
            /\ \A i \in 1..(Len(monthly_comparison) - 1) :
                  monthly_comparison[i].Mes_Orden <= monthly_comparison[i + 1].Mes_Orden

\* C17: comparing the two datasets the other way round gives the same groups
\* and, for every group, the negated change_amount.
C17_SwapNegates ==
    Compared =>
        /\ LET swapped == compare_versions(previous_netsuite_data, netsuite_data)
           IN  /\ DOMAIN swapped.client_changes = DOMAIN version_comparison.client_changes
               /\ \A g \in DOMAIN swapped.client_changes :
                     swapped.client_changes[g].change_amount
                         = 0 - version_comparison.client_changes[g].change_amount
        /\ \A r \in GroupResults :
              \A swapped \in compare_versions_by_group(previous_netsuite_data,
                                                       netsuite_data, r[1]) :
                  /\ {swapped[i][1] : i \in 1..Len(swapped)}
                        = {r[2][i][1] : i \in 1..Len(r[2])}
                  /\ \A i \in 1..Len(swapped) : \A j \in 1..Len(r[2]) :
                        swapped[i][1] = r[2][j][1] =>
                            swapped[i][2].change_amount = 0 - r[2][j][2].change_amount

\* Two different datasets with a client whose total grew and one whose total
\* fell.
C17_Witness ==
    /\ Compared
    /\ netsuite_data # previous_netsuite_data
    /\ \E g, h \in DOMAIN version_comparison.client_changes :
          /\ version_comparison.client_changes[g].change_amount > 0
          /\ version_comparison.client_changes[h].change_amount < 0

RECURSIVE AmountTotal(_)
AmountTotal(rows) ==
    IF rows = <<>> THEN 0
    ELSE (IF IsNaN(Head(rows).Amount) THEN 0 ELSE Head(rows).Amount[1])
         + AmountTotal(Tail(rows))
RECURSIVE SumOverGroups(_, _)
SumOverGroups(changes, field) ==
    IF DOMAIN changes = {} THEN 0
    ELSE LET g == CHOOSE x \in DOMAIN changes : TRUE
         IN  changes[g][field]
             + SumOverGroups([x \in DOMAIN changes \ {g} |-> changes[x]], field)

\* C18: the summary's total_current and total_previous are the totals of the
\* whole current and previous dataset; they equal the sums of the groups'
\* current and previous amounts, and total_change_amount equals the sum of
\* the groups' change_amount.
C18_SummaryMatchesGroups ==
    Compared =>
        LET changes == version_comparison.client_changes
            summ == version_comparison.summary
        IN  /\ summ.total_current = AmountTotal(netsuite_data.rows)
            /\ summ.total_previous = AmountTotal(previous_netsuite_data.rows)
            /\ summ.total_current = SumOverGroups(changes, "current_amount")
            /\ summ.total_previous = SumOverGroups(changes, "previous_amount")
            /\ summ.total_change_amount = SumOverGroups(changes, "change_amount")

\* A client only the current dataset has, one only the previous has, and a
\* total that changed.
C18_Witness ==
    /\ Compared
    /\ \E g, h \in DOMAIN version_comparison.client_changes :
          /\ g \notin KeysOf(previous_netsuite_data, "Client")
          /\ h \notin KeysOf(netsuite_data, "Client")
          /\ version_comparison.client_changes[g].change_amount > 0
          /\ version_comparison.client_changes[h].change_amount < 0
    /\ version_comparison.summary.total_change_amount # 0

\* ---------------------------------------- properties of the Normalizer
\* The columns of a fully normalized table.
CanonicalColumns ==
    {"Client", "Amount", "Anio", "Mes", "Mes_Nombre", "Trimestre", "Month", "Source",
     "Partner", "Partner_Normalized", "PM"}

\* No header of the file can serve as the date, the client or the amount
\* column.
NoDateHeader == "Date" \notin Range(netsuite_file.columns)
NoClientHeader ==
    Range(netsuite_file.columns) \cap {"Customer Parent", "Client Leader AUX"} = {}
NoAmountHeader == Range(netsuite_file.columns) \cap {"Total USD", "Amount"} = {}

\* C19: a file that cannot be decoded or parsed, or that has no date, client
\* or amount column, makes process_netsuite_csv return None with the error
\* reported; None is returned only with a reported error, and a table that is
\* returned has every canonical column.
C19_FailureAbortsWholeCall ==
    pc = "processed" =>
        /\ (\/ netsuite_file.kind # "csv"
            \/ NoDateHeader \/ NoClientHeader \/ NoAmountHeader) =>
              (netsuite_data = None /\ st_error = TRUE)
        /\ netsuite_data = None <=> st_error = TRUE
        /\ netsuite_data.kind = "DataFrame" =>
              /\ CanonicalColumns \subseteq Range(netsuite_data.columns)
              /\ Len(netsuite_data.rows) = Len(netsuite_file.rows)

\* A file with rows but without a client column was processed.
C19_Witness ==
    /\ pc = "processed"
    /\ netsuite_file.kind = "csv"
    /\ Len(netsuite_file.rows) > 0
    /\ NoClientHeader /\ ~NoDateHeader /\ ~NoAmountHeader
    /\ netsuite_data = None
    /\ st_error = TRUE

\* C20: when the file has a partner header ("Client Leader AUX"), the Partner
\* of every returned row is the row's cell under that header, "Sin asignar"
\* for an empty cell, wherever the header stands.
C20_PartnerFromFirstPartnerHeader ==
    (/\ pc = "processed"
     /\ netsuite_data.kind = "DataFrame"
     /\ "Client Leader AUX" \in Range(netsuite_file.columns)) =>
        \A i \in 1..Len(netsuite_data.rows) :
            netsuite_data.rows[i]["Partner"]
                = IF netsuite_file.rows[i]["Client Leader AUX"] = <<>> THEN SinAsignar
                  ELSE netsuite_file.rows[i]["Client Leader AUX"]

\* C21: a file without a partner header gives every returned row the Partner
\* "Sin asignar" and the Partner_Normalized "sin asignar", and a file without
\* a PM header gives every row the PM "Sin asignar".
C21_MissingPartnerAndPmDefault ==
    (pc = "processed" /\ netsuite_data.kind = "DataFrame") =>
        /\ "Client Leader AUX" \notin Range(netsuite_file.columns) =>
              \A i \in 1..Len(netsuite_data.rows) :
                  /\ netsuite_data.rows[i]["Partner"] = SinAsignar
                  /\ netsuite_data.rows[i]["Partner_Normalized"] = lower(SinAsignar)
        /\ "PM" \notin Range(netsuite_file.columns) =>
              \A i \in 1..Len(netsuite_data.rows) :
                  netsuite_data.rows[i]["PM"] = SinAsignar

\* C22: normalize_name returns, for every string, a lower-cased text without
\* leading or trailing whitespace; a name with exactly one comma comes back as
\* the part after the comma, a blank, the part before it; a value that is not
\* a string gives the empty text.
C22_NormalizedNameIsTrimmedLowerCase ==
    (pc = "applied" /\ call.fn = "normalize_name") =>
        IF "str" \notin DOMAIN call.arg THEN call_result = <<>>
        ELSE /\ \A i \in 1..Len(call_result) : call_result[i] \notin Range(UpperCase)
             /\ call_result # <<>> => (call_result[1] # " " /\ call_result[Len(call_result)] # " ")
             /\ Cardinality({i \in 1..Len(call.arg.str) : call.arg.str[i] = ","}) = 1 =>
                   \E k \in 1..Len(call_result) :
                       /\ call_result[k] = " "
                       /\ \E c \in 1..Len(call.arg.str) :
                             /\ call.arg.str[c] = ","
                             /\ SubSeq(call_result, 1, k - 1) =
                                    lower(strip(SubSeq(call.arg.str, c + 1, Len(call.arg.str))))
                             /\ SubSeq(call_result, k + 1, Len(call_result)) =
                                    lower(strip(SubSeq(call.arg.str, 1, c - 1)))

\* C27: format_miles returns the empty text exactly for NaN and for 0; for
\* every other amount it returns the integer nearest to the amount divided by
\* 1000, a half going to the even integer, followed by "K".
C27_ThousandsText ==
    (pc = "applied" /\ call.fn = "format_miles") =>
        /\ call_result = <<>> <=> (call.arg = <<>> \/ call.arg = <<0>>)
        /\ call_result # <<>> =>
              LET body == SubSeq(call_result, 1, Len(call_result) - 1)
                  negative == body # <<>> /\ Head(body) = "-"
                  digits == IF negative THEN Tail(body) ELSE body
                  k == IF negative THEN 0 - ParseDigits(digits) ELSE ParseDigits(digits)
                  distance == Abs(k * 1000000 - call.arg[1])
              IN  /\ call_result[Len(call_result)] = "K"
                  /\ AllDigits(digits)
                  /\ negative => k # 0
                  /\ distance <= 500000
                  /\ distance = 500000 => k % 2 = 0

\* The amount 2500 is shown as "2K" and the amount 500 as "0K".
C27_Witness ==
    /\ pc = "applied"
    /\ call.fn = "format_miles"
    /\ \/ call.arg = <<2500000>> /\ call_result = <<"2", "K">>
       \/ call.arg = <<500000>> /\ call_result = <<"0", "K">>

\* The header of the amount column of the uploaded file.
AmountHeader ==
    IF "Total USD" \in Range(netsuite_file.columns) THEN "Total USD" ELSE "Amount"

\* The amounts the cell texts of the uploaded files stand for, in thousandths.
ExpectedAmount(cell) ==
    CASE cell = T_1_500_00 -> <<1500000>>
      [] cell = T_500_00 -> <<500000>>
      [] cell = T_1_500 -> <<1500000>>
      [] cell = T_2_000_5 -> <<2000500>>
      [] OTHER -> <<>>

\* The amount column holds texts: some cell is not a plain number.
TextualAmounts ==
    \E i \in 1..Len(netsuite_file.rows) :
        netsuite_file.rows[i][AmountHeader] \in {T_1_500_00, T_500_00, T_2_000_5, T_abc}

\* C24: in a textual amount column every cell is read with its '.' removed,
\* its ',' as the decimal point and its spaces removed; a cell that is not a
\* number after that becomes NaN in its own row, which is kept, and the other
\* rows keep their amounts.
C24_TextualAmounts ==
    (pc = "processed" /\ netsuite_data.kind = "DataFrame" /\ TextualAmounts) =>
        /\ Len(netsuite_data.rows) = Len(netsuite_file.rows)
        /\ \A i \in 1..Len(netsuite_file.rows) :
              netsuite_data.rows[i]["Amount"] =
                  ExpectedAmount(netsuite_file.rows[i][AmountHeader])

\* A file whose rows read "abc" and "1.500,00" comes back with both rows, the
\* first without an amount and the second with 1500.
C24_Witness ==
    /\ pc = "processed"
    /\ netsuite_data.kind = "DataFrame"
    /\ Len(netsuite_file.rows) = 2
    /\ netsuite_file.rows[1][AmountHeader] = T_abc
    /\ netsuite_file.rows[2][AmountHeader] = T_1_500_00
    /\ Len(netsuite_data.rows) = 2
    /\ netsuite_data.rows[1]["Amount"] = <<>>
    /\ netsuite_data.rows[2]["Amount"] = <<1500000>>

\* The percentage p is the quotient of change * 100 by previous.
IsPercentOf(p, change, previous) ==
    /\ p.kind = "float"
    /\ p.den # 0
    /\ p.num * previous = change * 100 * p.den

\* C25: a group whose previous total is not 0 has the change_percent
\* change_amount / previous_amount * 100, and a group that only the previous
\* dataset has, with a total that is not 0, has exactly -100.
C25_PercentOfPrevious ==
    Compared =>
        /\ \A g \in DOMAIN version_comparison.client_changes :
              LET current == GroupTotal(netsuite_data, "Client", g)
                  previous == GroupTotal(previous_netsuite_data, "Client", g)
                  percent == version_comparison.client_changes[g].change_percent
              IN  previous # 0 =>
                      /\ IsPercentOf(percent, current - previous, previous)
                      /\ g \notin KeysOf(netsuite_data, "Client") =>
                             percent.num = (0 - 100) * percent.den
        /\ \A r \in GroupResults : \A i \in 1..Len(r[2]) :
              LET current == GroupTotal(netsuite_data, r[1], r[2][i][1])
                  previous == GroupTotal(previous_netsuite_data, r[1], r[2][i][1])
                  percent == r[2][i][2].change_percent
              IN  previous # 0 =>
                      /\ IsPercentOf(percent, current - previous, previous)
                      /\ r[2][i][1] \notin KeysOf(netsuite_data, r[1]) =>
                             percent.num = (0 - 100) * percent.den

\* A client that only the previous dataset has, with -100 percent, next to a
\* client that only the current dataset has, and a PM with amounts on both
\* sides whose change is not -100 percent.
C25_Witness ==
    /\ Compared
    /\ \E g, h \in DOMAIN version_comparison.client_changes :
          /\ g \notin KeysOf(netsuite_data, "Client")
          /\ version_comparison.client_changes[g].previous_amount # 0
          /\ version_comparison.client_changes[g].change_percent.kind = "float"
          /\ version_comparison.client_changes[g].change_percent.num
                = (0 - 100) * version_comparison.client_changes[g].change_percent.den
          /\ h \notin KeysOf(previous_netsuite_data, "Client")
          /\ version_comparison.client_changes[h].change_amount > 0
    /\ \E i \in 1..Len(pm_changes) :
          /\ pm_changes[i][2].previous_amount # 0
          /\ pm_changes[i][2].current_amount # 0
          /\ pm_changes[i][2].change_percent.kind = "float"
          /\ pm_changes[i][2].change_percent.num
                # (0 - 100) * pm_changes[i][2].change_percent.den

\* C26: compare_versions_by_group is deterministic: the list it returned for
\* the two datasets is the list every invocation on them returns, the order of
\* groups with equal |change_amount| included.
C26_SameInputsSameOrder ==
    Compared =>
        \A r \in GroupResults :
            \A other \in compare_versions_by_group(netsuite_data, previous_netsuite_data, r[1]) :
                other = r[2]

ResultsOf(file) == {processed.value : processed \in process_netsuite_csv(file)}

\* C28: the session starts with both datasets None; a run with the button of
\* the current file pressed stores the result of processing that file (None
\* when it failed) and leaves the previous dataset alone, a run with the
\* button of the previous file pressed does the same the other way round, and
\* any other run changes neither; the tabs are built exactly in the runs that
\* end with a current dataset, and the versions compared exactly in those
\* that end with both datasets.
C28_DatasetsFollowTheirButtons ==
    /\ (netsuite_data = None /\ previous_netsuite_data = None)
    /\ [][/\ clicked' = "current" =>
                /\ netsuite_data' \in ResultsOf(netsuite_file)
                /\ previous_netsuite_data' = previous_netsuite_data
          /\ clicked' = "previous" =>
                /\ previous_netsuite_data' \in ResultsOf(previous_netsuite_file)
                /\ netsuite_data' = netsuite_data
          /\ clicked' = "none" =>
                /\ netsuite_data' = netsuite_data
                /\ previous_netsuite_data' = previous_netsuite_data
          /\ shown' # "nothing" <=> netsuite_data' # None
          /\ "summary" \in DOMAIN version_comparison'
                <=> (netsuite_data' # None /\ previous_netsuite_data' # None)]_vars

\* The current file failed to process while an earlier version is held: the
\* current dataset is None, the error is reported, no tab is built and nothing
\* is compared.
C28_Witness ==
    /\ clicked = "current"
    /\ netsuite_file = [kind |-> "undecodable"]
    /\ st_error
    /\ netsuite_data = None
    /\ previous_netsuite_data # None
    /\ shown = "nothing"
    /\ "summary" \notin DOMAIN version_comparison

====
